---- MODULE Spec2Model ----
(***************************************************************************)
(* Session continuity and optimistic message cache of the XP chat client.  *)
(*                                                                         *)
(*   src/src/utils/sessionStorage.ts   SessionStorageManager               *)
(*   src/src/hooks/useChat.ts          useChatMessages                     *)
(*   src/src/services/chatApi.ts       chatApi                             *)
(*                                                                         *)
(* The specifications share the variables:                                 *)
(*   SpecStore   the operations of SessionStorageManager, in any order;    *)
(*   SpecSend    sendMessage, its mutation callbacks and the session       *)
(*               changes they interleave with;                             *)
(*   SpecAccept  sendMessage over every text up to MaxTextLen;             *)
(*   SpecNeg     the session query (negotiation) over the store;           *)
(*   SpecTopic   the session query while the subjectId prop changes;       *)
(*   SpecTrack   the throttled activity tracker and its timers;            *)
(*   SpecTouch   sends and activity events over one live session;          *)
(*   SpecCorrupt the store and the query over damaged storage entries;     *)
(*   SpecHistory the session history requests of the chat page;            *)
(*   SpecInput   the message input of the chat page and its sends;         *)
(*   SpecWidget  useChatWidget and the chat shown in the widget;           *)
(*   SpecIds     sends against servers that number messages differently;   *)
(*   SpecFetch   sends while the messages query refetches;                 *)
(*   SpecSelect  sends while a session of the history is selected;         *)
(*   SpecLate    the default negotiation and validations that time out;    *)
(*   SpecNew     the session query and the start of a new conversation;    *)
(*   SpecTyped   the default negotiation over sessions without status.     *)
(***************************************************************************)
EXTENDS Integers, Sequences, FiniteSets, TLC

(***************************************************************************)
(* Bounds of the model.                                                    *)
(***************************************************************************)
\* the clock runs over 0..MaxTime (minutes)
MaxTime == 6
\* longest text handed to sendMessage
MaxTextLen == 3
\* number of sends accepted in one behaviour
MaxSends == 2
\* number of changes of the hook's props in one behaviour
MaxPropChanges == 1
\* the activity tracker is followed over 0..MaxTicks throttle delays
MaxTicks == 4

\* topics (subjectId) and server session ids
Topics == {1, 2}
SessionIds == {1, 2}
\* an optional value is a sequence of length 0 (null / undefined) or 1
None == <<>>
Some(x) == <<x>>
Val(o) == o[1]
\* an absent numeric id (undefined; 0 is never a server id)
NoId == 0

(***************************************************************************)
(* Program constants.                                                      *)
(***************************************************************************)
\* sessionStorage.ts:26  private static readonly TIMEOUT_MINUTES = 5
TIMEOUT_MINUTES == 5

\* ChatSession as the server sends it (types/chat.ts, and the status field
\* storeSession reads).  status "none" is a response without the field.
Statuses == {"active", "expired"}
Sessions == [id : SessionIds, status : Statuses, is_active : BOOLEAN]

\* Message ids are numbers up to Date.now() (about 1.7 * 10^12), beyond the
\* integers of the checker: an id is the pair <<hi, lo>> standing for
\* hi * 10^6 + lo with 0 <= lo < 10^6.
\* useChat.ts:209  msg.id < 1000000000000, that is hi < 1000000
TempIdThresholdHi == 1000000
\* Date.now() of the first state, in units of 10^6 ms (November 2025)
EpochHi == 1762214
MsPerMinute == 60000

\* texts are sequences of characters; " " is whitespace
Chars == {" ", "a"}
IsWhitespace(c) == c = " "

\* query key ['chat', 'messages', subjectId, sessionId]; sessionId NoId when
\* there is no current session
Keys == Topics \X (SessionIds \cup {NoId})

VARIABLES
  now,        \* wall clock, in minutes since the first state
  rec,        \* localStorage 'xp-chat-sessions-<subjectId>': StoredSessionData
  act,        \* localStorage 'xp-chat-activity': ActivityData
  op,         \* the last operation performed and what it returned
  subjectId,          \* prop of useChatMessages
  selectedSessionId,  \* prop of useChatMessages (NoId: undefined)
  currentSession,     \* useState<ChatSession | null>
  cache,      \* query data of ['chat', 'messages', subjectId, sessionId]
  sends,      \* the mutations started by sendMessage, oldest first
  requests,   \* the POST requests chatApi.sendMessage has issued
  srvMsgs,    \* server side: the messages of each (topic, session)
  srvNextId,  \* server side: the next message id
  queries,    \* the session queries, by key ['chat','session',subjectId(,selected)]
  propChanges, \* how often the props of the hook have changed
  tracker,    \* the activity tracking effect: throttle closure and timers
  message,    \* MessageInput: useState('') , the draft in the textarea
  widgetState,     \* useChatWidget: 'collapsed' | 'expanded' | 'fullscreen'
  hasNewMessages   \* useChatWidget: useState(false)

storeVars == <<now, rec, act>>
hookVars == <<subjectId, selectedSessionId, currentSession, queries>>
sendVars == <<cache, sends, requests, srvMsgs, srvNextId>>
uiVars == <<message, widgetState, hasNewMessages>>
vars == <<now, rec, act, op, hookVars, propChanges, sendVars, tracker, uiVars>>

(***************************************************************************)
(* SessionStorageManager.  A store state is [rec, act]; every operation is *)
(* an operator from a store state (and the clock) to the next store state. *)
(* Timestamps are written with toISOString() and read back with new Date():*)
(* both keep the millisecond value, the model keeps the clock value.       *)
(***************************************************************************)
Store(r, a) == [rec |-> r, act |-> a]

\* mutant: the threshold minute itself already counts as expired
isLocallyExpired_atThreshold(lastActivity, t) ==
  (t - lastActivity) >= TIMEOUT_MINUTES

isLocallyExpired(lastActivity, t) ==
  (t - lastActivity) > TIMEOUT_MINUTES

\* What a key of localStorage can hold besides a value the class wrote:
\* a string JSON.parse rejects (Garbled), or nothing that can be reached,
\* every getItem, setItem and removeItem of the key throwing (Unreadable).
\* The same for the aggregate key.
Garbled == <<[bad |-> "garbled"]>>
Unreadable == <<[bad |-> "unreadable"]>>
GarbledData == [bad |-> "garbled"]
UnreadableData == [bad |-> "unreadable"]
\* {}
EmptyData == [s \in Topics |-> None]

\* try { stored ? JSON.parse(stored) : {} } catch { return {} }
getActivityData(st) ==
  IF st.act = GarbledData \/ st.act = UnreadableData
    THEN EmptyData ELSE st.act

\* mutant: the aggregate is emptied, not only the entry of the topic
clearSession_wholeAggregate(st, subj) ==
  Store([st.rec EXCEPT ![subj] = None], EmptyData)

\* try { removeItem(sessionKey); ...; setItem(ACTIVITY_STORAGE_KEY, ...) }
\* catch { warn }: a throw ends the operation where it happens
clearSession(st, subj) ==
  IF st.rec[subj] = Unreadable
    THEN st
    ELSE Store([st.rec EXCEPT ![subj] = None],
               IF st.act = UnreadableData
                 THEN st.act
                 ELSE [getActivityData(st) EXCEPT ![subj] = None])

\* try { setItem(ACTIVITY_STORAGE_KEY, ...); setItem(sessionKey, ...) }
\* catch { warn }
storeSession(st, subj, session, t) ==
  LET valid == session.status = "active" /\ session.is_active
      activityData == [getActivityData(st) EXCEPT ![subj] =
                         Some([sessionId |-> session.id, lastActivity |-> t,
                               isValid |-> valid])]
  IN  IF st.act = UnreadableData
        THEN st
        ELSE IF st.rec[subj] = Unreadable
               THEN Store(st.rec, activityData)
               ELSE Store([st.rec EXCEPT ![subj] =
                             Some([sessionId |-> session.id, subjectId |-> subj,
                                   lastActivity |-> t, isValid |-> valid])],
                          activityData)

\* mutant: the stored record is returned whatever its age
getStoredSession_noExpiry(st, subj, t) ==
  [st |-> st, val |-> st.rec[subj]]

\* mutant: what cannot be read or parsed is taken for a fresh valid record
getStoredSession_lenient(st, subj, t) ==
  LET stored == st.rec[subj]
  IN  IF stored = None
        THEN [st |-> st, val |-> None]
        ELSE IF stored \in {Garbled, Unreadable}
               THEN [st |-> st,
                     val |-> Some([sessionId |-> subj, subjectId |-> subj,
                                   lastActivity |-> t, isValid |-> TRUE])]
        ELSE IF isLocallyExpired(Val(stored).lastActivity, t)
               THEN [st |-> clearSession(st, subj), val |-> None]
               ELSE [st |-> st, val |-> stored]

\* getStoredSession returns a value and may clear the record: .st and .val.
\* getItem or JSON.parse throwing is caught: null, nothing written.
getStoredSession(st, subj, t) ==
  LET stored == st.rec[subj]
  IN  IF stored \in {None, Garbled, Unreadable}
        THEN [st |-> st, val |-> None]
        ELSE IF isLocallyExpired(Val(stored).lastActivity, t)
               THEN [st |-> clearSession(st, subj), val |-> None]
               ELSE [st |-> st, val |-> stored]

\* mutant: the touch writes nothing
updateActivity_noWrite(st, subj, t) ==
  getStoredSession(st, subj, t).st

\* mutant: the touch also marks the record valid again
updateActivity_revalidates(st, subj, t) ==
  LET g == getStoredSession(st, subj, t)
      activityData == getActivityData(g.st)
  IN  IF g.val = None
        THEN g.st
        ELSE Store([g.st.rec EXCEPT ![subj] =
                      Some([Val(g.val) EXCEPT !.lastActivity = t,
                                              !.isValid = TRUE])],
                   IF activityData[subj] # None
                     THEN [activityData EXCEPT ![subj] =
                             Some([Val(@) EXCEPT !.lastActivity = t,
                                                 !.isValid = TRUE])]
                     ELSE g.st.act)

\* mutant: an expired record is refreshed by the touch
updateActivity_refreshesExpired(st, subj, t) ==
  IF st.rec[subj] = None
    THEN st
    ELSE Store([st.rec EXCEPT ![subj] =
                  Some([Val(@) EXCEPT !.lastActivity = t])],
               [st.act EXCEPT ![subj] =
                  IF @ = None THEN @
                  ELSE Some([Val(@) EXCEPT !.lastActivity = t])])

updateActivity(st, subj, t) ==
  LET g == getStoredSession(st, subj, t)
      activityData == getActivityData(g.st)
  IN  IF g.val = None
        THEN g.st
        ELSE Store([g.st.rec EXCEPT ![subj] =
                      Some([Val(g.val) EXCEPT !.lastActivity = t])],
                   IF activityData[subj] # None
                     THEN [activityData EXCEPT ![subj] =
                             Some([Val(@) EXCEPT !.lastActivity = t])]
                     ELSE g.st.act)

\* mutant: only the individual record is marked
markSessionInvalid_recordOnly(st, subj, t) ==
  LET g == getStoredSession(st, subj, t)
  IN  IF g.val = None
        THEN g.st
        ELSE Store([g.st.rec EXCEPT ![subj] =
                      Some([Val(g.val) EXCEPT !.isValid = FALSE])],
                   g.st.act)

markSessionInvalid(st, subj, t) ==
  LET g == getStoredSession(st, subj, t)
      activityData == getActivityData(g.st)
  IN  IF g.val = None
        THEN g.st
        ELSE Store([g.st.rec EXCEPT ![subj] =
                      Some([Val(g.val) EXCEPT !.isValid = FALSE])],
                   IF activityData[subj] # None
                     THEN [activityData EXCEPT ![subj] =
                             Some([Val(@) EXCEPT !.isValid = FALSE])]
                     ELSE g.st.act)

\* mutant: the sweep drops the aggregate entries and leaves the individual
\* records
cleanupExpiredSessions_aggregateOnly(st, t) ==
  LET activityData == getActivityData(st)
      expired == {s \in Topics : activityData[s] # None
                     /\ isLocallyExpired(Val(activityData[s]).lastActivity, t)}
  IN  Store(st.rec,
            IF expired # {}
              THEN [s \in Topics |->
                      IF s \in expired THEN None ELSE activityData[s]]
              ELSE st.act)

\* every aggregate entry that is expired is dropped and its individual
\* record cleared; the cleaned map is written back only if something changed
cleanupExpiredSessions(st, t) ==
  LET activityData == getActivityData(st)
      expired == {s \in Topics : activityData[s] # None
                     /\ isLocallyExpired(Val(activityData[s]).lastActivity, t)}
      cleanedData == [s \in Topics |->
                        IF s \in expired THEN None ELSE activityData[s]]
  IN  Store([s \in Topics |->
               IF s \in expired /\ st.rec[s] # Unreadable
                 THEN None ELSE st.rec[s]],
            IF expired # {} THEN cleanedData ELSE st.act)

(***************************************************************************)
(* The activity tracking effect of useChatMessages (useChat.ts:265-285)    *)
(* and throttle (useChat.ts:8-31).  The tracker reads the clock in ticks   *)
(* of the throttle delay: FineNow is now (minutes) refined by tracker.half.*)
(* tracker.lastExecTime is the lastExecTime of the throttle closure of the *)
(* effect that is mounted, tracker.timers the timeouts that are scheduled: *)
(* topic is the subjectId the callback closes over, due the tick at which  *)
(* it may fire, live whether it is the timeoutId of the mounted closure.   *)
(* tracker.lastTouch is the tick of the last trackActivity call per topic. *)
(***************************************************************************)
\* throttle(trackActivity, 30000)
ThrottleDelayMs == 30000
TicksPerMinute == MsPerMinute \div ThrottleDelayMs
\* the delay in ticks
Delay == ThrottleDelayMs \div (MsPerMinute \div TicksPerMinute)
\* let lastExecTime = 0: further back than the delay from any Date.now()
EpochTick == 0 - (Delay + 1)

InitTracker ==
  [half |-> 0, lastExecTime |-> EpochTick, timers |-> {},
   lastTouch |-> [s \in Topics |-> EpochTick]]

\* Date.now() as the throttle reads it
FineNow == now * TicksPerMinute + tracker.half

\* one call of the throttled function at currentTime: .exec tells whether
\* func runs now, .tr is the closure and the timers afterwards
throttled(tr, currentTime, subj) ==
  IF currentTime - tr.lastExecTime > Delay
    THEN [exec |-> TRUE, tr |-> [tr EXCEPT !.lastExecTime = currentTime]]
    ELSE \* clearTimeout(timeoutId); setTimeout(..., delay - elapsed)
         [exec |-> FALSE,
          tr |-> [tr EXCEPT !.timers = {x \in @ : ~x.live} \cup
                    {[topic |-> subj, due |-> tr.lastExecTime + Delay,
                      live |-> TRUE]}]]

\* currentSession or subjectId has changed: the cleanup of the effect
\* removes the listeners (the timeout stays scheduled), the effect runs
\* again and makes a new throttle closure
activityEffect(tr) ==
  [tr EXCEPT !.lastExecTime = EpochTick,
             !.timers = {[x EXCEPT !.live = FALSE] : x \in @}]

(***************************************************************************)
(* Initial state: an empty localStorage.                                   *)
(***************************************************************************)
NoOp == [name |-> "init", topic |-> NoId, had |-> None, val |-> None]

InitStore ==
  /\ now = 0
  /\ rec = [s \in Topics |-> None]
  /\ act = [s \in Topics |-> None]
  /\ op = NoOp

\* a session query that has not run: no data, no error
\* late: the sessions of the validateSession requests the negotiation has
\* stopped waiting for (the 10 second timeout) and that are still in flight
IdleQuery == [pc |-> "idle", failureCount |-> 0, data |-> None, asked |-> NoId,
              nValidate |-> 0, nCreate |-> 0, late |-> {}]

InitHook ==
  /\ subjectId = 1
  /\ selectedSessionId = NoId
  /\ currentSession = None
  /\ cache = [k \in Keys |-> <<>>]
  /\ sends = <<>>
  /\ requests = <<>>
  /\ srvMsgs = [k \in Keys |-> <<>>]
  /\ srvNextId = 1
  /\ queries = [k \in Keys |-> IdleQuery]
  /\ propChanges = 0
  /\ tracker = InitTracker

\* useChatWidget(initialState = 'collapsed'), useState(false), useState('')
InitUi(initialState) ==
  /\ message = <<>>
  /\ widgetState = initialState
  /\ hasNewMessages = FALSE

Init == InitStore /\ InitHook /\ InitUi("collapsed")

(***************************************************************************)
(* Actions of SpecStore: one per public operation of the class.            *)
(***************************************************************************)
SetStore(st) == rec' = st.rec /\ act' = st.act

Did(name, subj, val) ==
  op' = [name |-> name, topic |-> subj, had |-> rec[subj], val |-> val]

Tick ==
  /\ now < MaxTime
  /\ now' = now + 1
  /\ UNCHANGED <<rec, act, op, hookVars, propChanges, tracker, sendVars, uiVars>>

StoreSession(subj, session) ==
  /\ SetStore(storeSession(Store(rec, act), subj, session, now))
  /\ Did("store", subj, None)
  /\ UNCHANGED <<now, hookVars, propChanges, tracker, sendVars, uiVars>>

GetStoredSession(subj) ==
  LET g == getStoredSession(Store(rec, act), subj, now)
  IN  /\ SetStore(g.st)
      /\ Did("get", subj, g.val)
      /\ UNCHANGED <<now, hookVars, propChanges, tracker, sendVars, uiVars>>

UpdateActivity(subj) ==
  /\ SetStore(updateActivity(Store(rec, act), subj, now))
  /\ Did("touch", subj, None)
  /\ UNCHANGED <<now, hookVars, propChanges, tracker, sendVars, uiVars>>

ClearSession(subj) ==
  /\ SetStore(clearSession(Store(rec, act), subj))
  /\ Did("clear", subj, None)
  /\ UNCHANGED <<now, hookVars, propChanges, tracker, sendVars, uiVars>>

MarkSessionInvalid(subj) ==
  /\ SetStore(markSessionInvalid(Store(rec, act), subj, now))
  /\ Did("invalidate", subj, None)
  /\ UNCHANGED <<now, hookVars, propChanges, tracker, sendVars, uiVars>>

CleanupExpiredSessions ==
  /\ SetStore(cleanupExpiredSessions(Store(rec, act), now))
  \* val: the topics whose record the sweep found and removed
  /\ op' = [name |-> "sweep", topic |-> NoId, had |-> None,
            val |-> Some([swept |-> {s \in Topics :
                                      rec[s] # None /\ rec'[s] = None}])]
  /\ UNCHANGED <<now, hookVars, propChanges, tracker, sendVars, uiVars>>

NextStore ==
  \/ Tick
  \/ \E subj \in Topics, session \in Sessions :
       StoreSession(subj, session)
  \/ \E subj \in Topics : GetStoredSession(subj)
  \/ \E subj \in Topics : UpdateActivity(subj)
  \/ \E subj \in Topics : ClearSession(subj)
  \/ \E subj \in Topics : MarkSessionInvalid(subj)
  \/ CleanupExpiredSessions

SpecStore == Init /\ [][NextStore]_vars

(***************************************************************************)
(* Messages and texts.  A ChatMessage is [id, content, role, session]; its  *)
(* timestamp, which nothing in the hook reads, is left out.                *)
(***************************************************************************)
RECURSIVE trimStart(_)
trimStart(s) ==
  IF s = <<>> THEN s
  ELSE IF IsWhitespace(Head(s)) THEN trimStart(Tail(s)) ELSE s

RECURSIVE trimEnd(_)
trimEnd(s) ==
  IF s = <<>> THEN s
  ELSE IF IsWhitespace(s[Len(s)]) THEN trimEnd(SubSeq(s, 1, Len(s) - 1)) ELSE s

\* mutant: only leading whitespace is removed
trim_startOnly(s) == trimStart(s)

\* mutant: nothing is removed
trim_nothing(s) == s

\* String.prototype.trim
trim(s) == trimEnd(trimStart(s))

RECURSIVE TextsUpTo(_)
TextsUpTo(n) ==
  IF n = 0 THEN {<<>>}
  ELSE LET shorter == TextsUpTo(n - 1)
       IN  shorter \cup {Append(t, c) : t \in shorter, c \in Chars}

\* the texts a caller hands to sendMessage
Texts == TextsUpTo(MaxTextLen)

\* Date.now() as a message id, at clock value t
DateNow(t) == <<EpochHi, t * MsPerMinute>>
\* an id the server assigns
ServerId(n) == <<0, n>>
\* msg.id < 1000000000000
BelowTempRange(id) == id[1] < TempIdThresholdHi

\* currentSession?.id
SessionIdOf(session) == IF session = None THEN NoId ELSE Val(session).id

\* chatQueryKeys.messages(subjectId, currentSession?.id) of the last render
RenderKey == <<subjectId, SessionIdOf(currentSession)>>

\* oldMessages.filter(msg => msg.id < 1000000000000)
RECURSIVE filterNotOptimistic(_)
filterNotOptimistic(msgs) ==
  IF msgs = <<>> THEN <<>>
  ELSE IF BelowTempRange(Head(msgs).id)
         THEN <<Head(msgs)>> \o filterNotOptimistic(Tail(msgs))
         ELSE filterNotOptimistic(Tail(msgs))

\* the assistant's reply text
Reply == <<"o", "k">>
\* the session object the send endpoint answers with
ActiveSession(id) == [id |-> id, status |-> "active", is_active |-> TRUE]

Pending(i) == sends[i].status \in {"pending", "processed"}
PendingSends == {i \in 1..Len(sends) : Pending(i)}

\* useMutation hands the callbacks of every render to the mutation started
\* last while it is pending (MutationObserver.setOptions); a mutation that
\* has been superseded keeps the callbacks of the render it saw last.  key is
\* the chatQueryKeys.messages(subjectId, currentSession?.id) its callbacks
\* evaluate to.
Rerender(ss, key) ==
  IF ss # <<>> /\ ss[Len(ss)].status \in {"pending", "processed"}
    THEN [ss EXCEPT ![Len(ss)].key = key]
    ELSE ss

\* setQueryData on a session query: the data is replaced, and a query that
\* is not being fetched becomes successful
setSessionData(q, session) ==
  [q EXCEPT !.data = session,
            !.pc = IF @ \in {"idle", "error"} THEN "success" ELSE @]

\* a mutation that has settled: only its outcome is kept
Settled(outcome) ==
  [data |-> [content |-> <<>>, session_id |-> NoId], subjectId |-> NoId,
   key |-> <<NoId, NoId>>, key0 |-> <<NoId, NoId>>, context |-> <<>>,
   tempId |-> <<0, 0>>, status |-> outcome, resp |-> None, alone |-> FALSE]

(***************************************************************************)
(* sendMessage and the callbacks of sendMessageMutation.                   *)
(***************************************************************************)
\* onMutate: snapshot, then append the optimistic message
onMutate(c, key, content, session, t) ==
  LET previousMessages == c[key]
      optimisticMessage == [id |-> DateNow(t), content |-> content,
                            role |-> "user",
                            session |-> SessionIdOf(session)]
  IN  [cache |-> [c EXCEPT ![key] = Append(previousMessages, optimisticMessage)],
       context |-> previousMessages]

\* onError: roll back to the snapshot
onError(c, key, context) == [c EXCEPT ![key] = context]

\* onSuccess: drop the optimistic messages, append the server's pair
onSuccessMessages(oldMessages, data) ==
  LET withoutOptimistic == filterNotOptimistic(oldMessages)
  IN  withoutOptimistic \o <<data.user_message, data.assistant_message>>

\* sendMessage(content), called at clock value t
SendMessage(text, t) ==
  IF trim(text) = <<>>
    THEN \* return without a result
         /\ op' = [name |-> "sendIgnored", topic |-> subjectId,
                   had |-> None, val |-> Some(text)]
         /\ UNCHANGED <<storeVars, hookVars, propChanges, tracker, sendVars>>
    ELSE /\ Len(sends) < MaxSends
         /\ now' = t
         /\ LET messageData == [content |-> trim(text),
                                session_id |-> SessionIdOf(currentSession)]
                m == onMutate(cache, RenderKey, messageData.content,
                              currentSession, t)
                alone == PendingSends = {}
            IN  /\ cache' = m.cache
                /\ sends' = Append(
                     [i \in 1..Len(sends) |-> [sends[i] EXCEPT !.alone = FALSE]],
                     [data |-> messageData, subjectId |-> subjectId,
                      key |-> RenderKey, key0 |-> RenderKey,
                      context |-> m.context, tempId |-> DateNow(t),
                      status |-> "pending", resp |-> None, alone |-> alone])
                \* mutationFn: chatApi.sendMessage posts { message: content }
                /\ requests' = Append(requests,
                     [subjectId |-> subjectId, message |-> messageData.content])
         /\ op' = [name |-> "sendIssued", topic |-> subjectId,
                   had |-> None, val |-> Some(text)]
         /\ UNCHANGED <<rec, act, hookVars, propChanges, tracker, srvMsgs, srvNextId>>

\* the server handles the request of send i: it stores the user message and
\* the assistant's reply in the session it keeps for the topic.  The ids of
\* the two messages are srvNextId and srvNextId + 1 above hi * 10^6: nothing
\* in the client bounds the ids a server assigns (the server of
\* test/mocks/chatApi.ts:51 assigns Date.now()).
ServerResponds(i, sid, hi) ==
  /\ i \in 1..Len(sends)
  /\ sends[i].status = "pending"
  /\ LET t == sends[i].subjectId
         user_message == [id |-> <<hi, srvNextId>>,
                          content |-> sends[i].data.content,
                          role |-> "user", session |-> sid]
         assistant_message == [id |-> <<hi, srvNextId + 1>>,
                               content |-> Reply,
                               role |-> "assistant", session |-> sid]
         data == [user_message |-> user_message,
                  assistant_message |-> assistant_message,
                  session |-> Some(ActiveSession(sid))]
     IN  /\ srvMsgs' = [srvMsgs EXCEPT ![<<t, sid>>] =
                          @ \o <<user_message, assistant_message>>]
         /\ sends' = [sends EXCEPT ![i].status = "processed",
                                   ![i].resp = Some(data)]
  /\ srvNextId' = srvNextId + 2
  /\ UNCHANGED <<storeVars, op, hookVars, propChanges, tracker, cache,
                 requests, uiVars>>

\* a server whose ids are database keys counted from 1
ServerHandlesSend(i, sid) == ServerResponds(i, sid, ServerId(srvNextId)[1])

\* the response of send i arrives: onSuccess, then sendMessage resumes and
\* touches the activity record
SendSucceeds(i) ==
  /\ i \in 1..Len(sends)
  /\ sends[i].status = "processed"
  /\ LET data == Val(sends[i].resp)
         key == sends[i].key
         session == IF data.session # None THEN data.session ELSE currentSession
         settled == [sends EXCEPT ![i] = Settled("ok")]
     IN  /\ cache' = [cache EXCEPT ![key] = onSuccessMessages(@, data)]
         /\ currentSession' = session
         \* queryClient.setQueryData(chatQueryKeys.session(subjectId), ...)
         /\ queries' = IF data.session # None
                         THEN [queries EXCEPT ![<<subjectId, NoId>>] =
                                 setSessionData(@, data.session)]
                         ELSE queries
         /\ sends' = Rerender(settled, <<subjectId, SessionIdOf(session)>>)
  \* SessionStorageManager.updateActivity(subjectId) of the sendMessage call
  /\ SetStore(updateActivity(Store(rec, act), sends[i].subjectId, now))
  /\ tracker' = activityEffect(tracker)
  /\ UNCHANGED <<now, op, subjectId, selectedSessionId, propChanges, requests,
                 srvMsgs, srvNextId, uiVars>>

\* mutant: a failed request is issued again
SendFails_retries(i) ==
  /\ i \in 1..Len(sends)
  /\ Pending(i)
  /\ requests' = Append(requests, [subjectId |-> sends[i].subjectId,
                                   message |-> sends[i].data.content])
  /\ UNCHANGED <<storeVars, op, hookVars, propChanges, tracker, cache, sends,
                 srvMsgs, srvNextId, uiVars>>

\* the request of send i fails (no response, or an error status): onError,
\* then sendMessage rethrows to its caller
SendFails(i) ==
  /\ i \in 1..Len(sends)
  /\ Pending(i)
  /\ cache' = onError(cache, sends[i].key, sends[i].context)
  /\ sends' = [sends EXCEPT ![i] = Settled("failed")]
  /\ UNCHANGED <<storeVars, op, hookVars, propChanges, tracker, requests, srvMsgs,
                 srvNextId, uiVars>>

\* The messages query (enabled: !!currentSession) fetches, on mount, when
\* stale, or every 30 seconds (refetchInterval), and its result replaces the
\* query data: chatApi.getMessages(subjectId, currentSession.id).  The step
\* is a fetch from its start to its end; the cancelQueries of onMutate ends
\* the fetches that are under way when a send starts, not those that start
\* later.
FetchMessages ==
  /\ currentSession # None
  /\ cache' = [cache EXCEPT ![RenderKey] = srvMsgs[RenderKey]]
  /\ op' = [name |-> "fetched", topic |-> subjectId, had |-> None,
            val |-> None]
  /\ UNCHANGED <<storeVars, hookVars, propChanges, tracker, sends, requests,
                 srvMsgs, srvNextId, uiVars>>

\* the session query succeeds with a session: onSuccess adopts it
SessionAdopted(session) ==
  /\ currentSession # Some(session)
  /\ currentSession' = Some(session)
  /\ SetStore(storeSession(Store(rec, act), subjectId, session, now))
  /\ sends' = Rerender(sends, <<subjectId, session.id>>)
  /\ tracker' = activityEffect(tracker)
  /\ UNCHANGED <<now, op, subjectId, selectedSessionId, queries, propChanges,
                 cache, requests, srvMsgs, srvNextId, uiVars>>

\* Under SpecSend one text that is sent and one that is refused stand for
\* all texts (SpecAccept runs sendMessage over all of Texts), and the clock
\* is read where a send starts: a minute has passed since the last step, or
\* none has (sends of the same tick share Date.now()).
SendTexts == {<<" ", "a">>, <<" ">>}

SendStarts(text) ==
  \E elapsed \in {0, 1} :
    /\ now + elapsed <= MaxTime
    /\ SendMessage(text, now + elapsed)
    /\ UNCHANGED uiVars

NextSend ==
  \/ \E text \in SendTexts : SendStarts(text)
  \/ \E i \in 1..MaxSends, sid \in SessionIds : ServerHandlesSend(i, sid)
  \/ \E i \in 1..MaxSends : SendSucceeds(i)
  \/ \E i \in 1..MaxSends : SendFails(i)
  \/ \E sid \in SessionIds : SessionAdopted(ActiveSession(sid))

SpecSend == Init /\ [][NextSend]_vars

\* sendMessage over every text, with the failures and session changes that
\* let it be called again
NextAccept ==
  \/ \E text \in Texts : SendStarts(text)
  \/ \E i \in 1..MaxSends : SendFails(i)
  \/ \E sid \in SessionIds : SessionAdopted(ActiveSession(sid))

SpecAccept == Init /\ [][NextAccept]_vars

(***************************************************************************)
(* The session query of useChatMessages (the negotiation).  There is one   *)
(* query per key <<subjectId, selectedSessionId>>; the hook observes the   *)
(* query of its current props.  pc is where the query function of a query  *)
(* is: "idle", "selValidating" (line 102), "validating" (line 68),         *)
(* "creating" (line 127), "retryWait" (retryDelay), "success", "error".    *)
(* nValidate and nCreate count the validateSession and getOrCreateSession  *)
(* calls of the negotiation.                                               *)
(***************************************************************************)
\* useChat.ts:144  failureCount < 2
MaxRetries == 2

ObservedKey == <<subjectId, selectedSessionId>>

\* the sessions the session endpoints answer with: is_active and status agree
ServerSessions == {x \in Sessions : x.is_active = (x.status = "active")}

\* the clock values at which the negotiation is observed: the start, the
\* last minute at which a record of the start is still alive, the first
\* minute at which it is expired
SampleTimes == {0, TIMEOUT_MINUTES, TIMEOUT_MINUTES + 1} \cap (0..MaxTime)

\* what validateSession can answer about session id
ValidationResponses(id) ==
  {[valid |-> TRUE, session |-> Some(session)] :
     session \in {x \in ServerSessions : x.id = id}}
  \cup {[valid |-> TRUE, session |-> None], [valid |-> FALSE, session |-> None]}

\* validation.valid && validation.session
Accepted(validation) == validation.valid /\ validation.session # None

\* mutant: a rejected history selection falls back to a new session
selectedOutcome_fallback(sessionData) ==
  IF Accepted(sessionData) THEN "return" ELSE "create"

\* queryFn, selectedSessionId branch: what follows the validation
selectedOutcome(sessionData) ==
  IF Accepted(sessionData) THEN "return" ELSE "throw"

\* mutant: the validated session is adopted but the record is not refreshed
restoreStore_noRefresh(st, subj, validation, t) ==
  IF Accepted(validation) THEN st ELSE clearSession(st, subj)

\* mutant: the record of a rejected session is left in the store
restoreStore_keepsRejected(st, subj, validation, t) ==
  IF Accepted(validation)
    THEN storeSession(st, subj, Val(validation.session), t)
    ELSE st

\* validateAndRestoreSession after the validation: the store
restoreStore(st, subj, validation, t) ==
  IF Accepted(validation)
    THEN storeSession(st, subj, Val(validation.session), t)
    ELSE clearSession(st, subj)

\* mutant: an invalid record is validated too
needsValidation_ignoreFlag(storedSession) == storedSession # None

\* validateAndRestoreSession: is there a stored session to validate
needsValidation(storedSession) ==
  storedSession # None /\ Val(storedSession).isValid

\* The messages of the errors the query function can throw, word by word.
\* chatApi.ts:43 (no response), chatApi.ts:46, useChat.ts:106, and
\* String(error) of the ApiError object thrown at chatApi.ts:35-40.  The
\* 'Session validation timeout' of useChat.ts:63 is caught at line 80 and
\* never reaches retry.
NetworkError == <<"Network", "error.", "Please", "check", "your", "connection.">>
UnexpectedError == <<"An", "unexpected", "error", "occurred">>
RejectedError == <<"Selected", "session", "is", "no", "longer", "valid">>
ApiErrorString == <<"[object", "Object]">>
\* what a request of chatApi can fail with
TransportErrors == {NetworkError, UnexpectedError, ApiErrorString}

\* errorMessage.includes(word)
includes(errorMessage, word) ==
  \E n \in 1..Len(errorMessage) : errorMessage[n] = word

\* retry: (failureCount, error) =>
\*   failureCount < 2 && !errorMessage.includes('timeout')
retry(failureCount, errorMessage) ==
  failureCount < MaxRetries /\ ~includes(errorMessage, "timeout")

\* the query function starts (first attempt or retry) for key k
BeginAttempt(k, q) ==
  IF k[2] # NoId
    THEN \* chatApi.validateSession(subjectId, selectedSessionId)
         /\ queries' = [queries EXCEPT ![k] =
              [q EXCEPT !.pc = "selValidating", !.asked = k[2],
                        !.nValidate = @ + 1]]
         /\ UNCHANGED <<rec, act>>
    ELSE LET g == getStoredSession(Store(rec, act), k[1], now)
         IN  /\ SetStore(g.st)
             /\ IF needsValidation(g.val)
                  THEN queries' = [queries EXCEPT ![k] =
                         [q EXCEPT !.pc = "validating",
                                   !.asked = Val(g.val).sessionId,
                                   !.nValidate = @ + 1]]
                  ELSE queries' = [queries EXCEPT ![k] =
                         [q EXCEPT !.pc = "creating", !.asked = NoId,
                                   !.nCreate = @ + 1]]

\* the hook observes a query that is not running: the query is fetched
NegotiationStarts ==
  /\ queries[ObservedKey].pc \in {"idle", "success", "error"}
  /\ BeginAttempt(ObservedKey,
                  [IdleQuery EXCEPT !.data = queries[ObservedKey].data,
                                    !.late = queries[ObservedKey].late])
  /\ op' = [name |-> "negotiate", topic |-> subjectId,
            had |-> rec[subjectId], val |-> None]
  /\ UNCHANGED <<now, subjectId, selectedSessionId, currentSession, propChanges, tracker,
                 sendVars, uiVars>>

\* retryDelay has passed: the query function of the observed query runs again
NegotiationRetries(k) ==
  /\ queries[k].pc = "retryWait"
  /\ k = ObservedKey
  /\ BeginAttempt(k, queries[k])
  /\ op' = [name |-> "retry", topic |-> k[1], had |-> rec[k[1]], val |-> None]
  /\ UNCHANGED <<now, subjectId, selectedSessionId, currentSession, propChanges, tracker,
                 sendVars, uiVars>>

\* retryDelay has passed for a query that has lost its observer: it does not
\* retry (Query.removeObserver calls retryer.cancelRetry) and fails
RetryCancelled(k) ==
  /\ queries[k].pc = "retryWait"
  /\ k # ObservedKey
  /\ queries' = [queries EXCEPT ![k].pc = "error"]
  /\ op' = [name |-> "retryCancelled", topic |-> k[1], had |-> None, val |-> None]
  /\ UNCHANGED <<storeVars, subjectId, selectedSessionId, currentSession, propChanges,
                 tracker, sendVars, uiVars>>

\* the query function of k returned session: the query succeeds, and the
\* hook's onSuccess runs if it observes k.  st and cur are the store and the
\* current session the query function leaves behind.
QuerySucceeds(k, session, st, cur) ==
  /\ queries' = [queries EXCEPT ![k] =
       [@ EXCEPT !.pc = "success", !.data = Some(session), !.failureCount = 0]]
  /\ IF k = ObservedKey
       THEN /\ currentSession' = Some(session)
            /\ SetStore(storeSession(st, subjectId, session, now))
       ELSE /\ currentSession' = cur
            /\ SetStore(st)

\* the query function of k threw: retry (only a query that is observed
\* retries), or the query fails and the hook's onError runs if it observes k
QueryThrows(k, errorMessage) ==
  IF retry(queries[k].failureCount, errorMessage) /\ k = ObservedKey
    THEN /\ queries' = [queries EXCEPT ![k] =
              [@ EXCEPT !.pc = "retryWait", !.failureCount = @ + 1]]
         /\ UNCHANGED <<rec, act>>
    ELSE /\ queries' = [queries EXCEPT ![k] =
              [@ EXCEPT !.pc = "error", !.failureCount = @ + 1]]
         /\ IF k = ObservedKey
              THEN SetStore(clearSession(Store(rec, act), subjectId))
              ELSE UNCHANGED <<rec, act>>

\* the validation of a history-selected session answers
SelectedValidationReturns(k, sessionData) ==
  /\ queries[k].pc = "selValidating"
  /\ sessionData \in ValidationResponses(queries[k].asked)
  /\ CASE selectedOutcome(sessionData) = "return" ->
            QuerySucceeds(k, Val(sessionData.session), Store(rec, act),
                          currentSession)
       [] selectedOutcome(sessionData) = "throw" ->
            QueryThrows(k, RejectedError) /\ UNCHANGED currentSession
       [] OTHER ->
            /\ queries' = [queries EXCEPT ![k] =
                 [@ EXCEPT !.pc = "creating", !.nCreate = @ + 1]]
            /\ UNCHANGED <<rec, act, currentSession>>
  /\ op' = [name |-> "selValidated", topic |-> k[1], had |-> None, val |-> None]
  /\ tracker' = IF currentSession' # currentSession
                  THEN activityEffect(tracker) ELSE tracker
  /\ UNCHANGED <<now, subjectId, selectedSessionId, propChanges, sendVars, uiVars>>

\* the validation request of a history-selected session fails in transport
SelectedValidationFails(k, errorMessage) ==
  /\ queries[k].pc = "selValidating"
  /\ QueryThrows(k, errorMessage)
  /\ op' = [name |-> "selValidationFailed", topic |-> k[1], had |-> None, val |-> None]
  /\ UNCHANGED <<now, subjectId, selectedSessionId, currentSession, propChanges, tracker,
                 sendVars, uiVars>>

\* validateAndRestoreSession: the validation of the stored session answers
ValidationReturns(k, validation) ==
  /\ queries[k].pc = "validating"
  /\ validation \in ValidationResponses(queries[k].asked)
  /\ LET st == restoreStore(Store(rec, act), k[1], validation, now)
     IN  IF Accepted(validation)
           THEN \* setCurrentSession(validation.session), return it
                QuerySucceeds(k, Val(validation.session), st, validation.session)
           ELSE \* return null: chatApi.getOrCreateSession(subjectId)
                /\ SetStore(st)
                /\ queries' = [queries EXCEPT ![k] =
                     [@ EXCEPT !.pc = "creating", !.nCreate = @ + 1]]
                /\ UNCHANGED currentSession
  /\ op' = [name |-> "validated", topic |-> k[1], had |-> rec[k[1]],
            val |-> Some([valid |-> validation.valid])]
  /\ tracker' = IF currentSession' # currentSession
                  THEN activityEffect(tracker) ELSE tracker
  /\ UNCHANGED <<now, subjectId, selectedSessionId, propChanges, sendVars, uiVars>>

\* validateAndRestoreSession: the validation fails in transport or the
\* 10 second timeout wins the race
ValidationFails(k) ==
  /\ queries[k].pc = "validating"
  /\ SetStore(markSessionInvalid(Store(rec, act), k[1], now))
  /\ queries' = [queries EXCEPT ![k] =
       [@ EXCEPT !.pc = "creating", !.nCreate = @ + 1]]
  /\ op' = [name |-> "validationFailed", topic |-> k[1], had |-> None, val |-> None]
  /\ UNCHANGED <<now, subjectId, selectedSessionId, currentSession, propChanges, tracker,
                 sendVars, uiVars>>

\* validateAndRestoreSession: the 10 second timeout wins the race
\* (useChat.ts:62-68).  The catch block runs as for a failed validation;
\* nothing aborts the request of validationPromise, which stays in flight.
ValidationTimesOut(k) ==
  /\ queries[k].pc = "validating"
  /\ SetStore(markSessionInvalid(Store(rec, act), k[1], now))
  /\ queries' = [queries EXCEPT ![k] =
       [@ EXCEPT !.pc = "creating", !.nCreate = @ + 1,
                 !.late = @ \cup {queries[k].asked}]]
  /\ op' = [name |-> "validationTimedOut", topic |-> k[1], had |-> None,
            val |-> None]
  /\ UNCHANGED <<now, subjectId, selectedSessionId, currentSession, propChanges, tracker,
                 sendVars, uiVars>>

\* mutant: a validation that answers after the timeout is adopted
LateValidationReturns_adopts(k, id, validation) ==
  /\ id \in queries[k].late
  /\ validation \in ValidationResponses(id)
  /\ queries' = [queries EXCEPT ![k].late = @ \ {id}]
  /\ currentSession' = IF Accepted(validation)
                         THEN validation.session ELSE currentSession
  /\ SetStore(restoreStore(Store(rec, act), k[1], validation, now))
  /\ op' = [name |-> "lateValidated", topic |-> k[1], had |-> rec[k[1]],
            val |-> Some([valid |-> validation.valid, id |-> id])]
  /\ UNCHANGED <<now, subjectId, selectedSessionId, propChanges, tracker,
                 sendVars, uiVars>>

\* the validation of session id answers after the timeout has won the race:
\* validationPromise settles, and nothing awaits it any more
LateValidationReturns(k, id, validation) ==
  /\ id \in queries[k].late
  /\ validation \in ValidationResponses(id)
  /\ queries' = [queries EXCEPT ![k].late = @ \ {id}]
  /\ op' = [name |-> "lateValidated", topic |-> k[1], had |-> rec[k[1]],
            val |-> Some([valid |-> validation.valid, id |-> id])]
  /\ UNCHANGED <<storeVars, subjectId, selectedSessionId, currentSession, propChanges,
                 tracker, sendVars, uiVars>>

\* chatApi.getOrCreateSession answers with newSession
CreateReturns(k, newSession) ==
  /\ queries[k].pc = "creating"
  /\ QuerySucceeds(k, newSession,
                   storeSession(Store(rec, act), k[1], newSession, now),
                   currentSession)
  /\ op' = [name |-> "created", topic |-> k[1], had |-> None, val |-> None]
  /\ tracker' = IF currentSession' # currentSession
                  THEN activityEffect(tracker) ELSE tracker
  /\ UNCHANGED <<now, subjectId, selectedSessionId, propChanges, sendVars, uiVars>>

\* chatApi.getOrCreateSession fails
CreateFails(k, errorMessage) ==
  /\ queries[k].pc = "creating"
  /\ QueryThrows(k, errorMessage)
  /\ op' = [name |-> "createFailed", topic |-> k[1], had |-> None, val |-> None]
  /\ UNCHANGED <<now, subjectId, selectedSessionId, currentSession, propChanges, tracker,
                 sendVars, uiVars>>

\* mutant: selecting a session empties the message caches
SelectSession_clearsCache(id) ==
  /\ selectedSessionId # id
  /\ propChanges < MaxPropChanges
  /\ propChanges' = propChanges + 1
  /\ selectedSessionId' = id
  /\ cache' = [k \in Keys |-> <<>>]
  /\ op' = [name |-> "select", topic |-> subjectId, had |-> None, val |-> None]
  /\ UNCHANGED <<storeVars, subjectId, currentSession, queries, sends, requests,
                 srvMsgs, srvNextId, tracker, uiVars>>

\* ChatPage.handleSessionSelect: a session of the history is selected
SelectSession(id) ==
  /\ selectedSessionId # id
  /\ propChanges < MaxPropChanges
  /\ propChanges' = propChanges + 1
  /\ selectedSessionId' = id
  /\ op' = [name |-> "select", topic |-> subjectId, had |-> None, val |-> None]
  /\ UNCHANGED <<storeVars, subjectId, currentSession, queries, sendVars,
                 tracker, uiVars>>

\* the hook is given another subjectId: the cleanup effect (deps [subjectId])
\* runs again; the state of the hook (currentSession) stays
ChangeTopic(topic) ==
  /\ subjectId # topic
  /\ propChanges < MaxPropChanges
  /\ propChanges' = propChanges + 1
  /\ subjectId' = topic
  /\ SetStore(cleanupExpiredSessions(Store(rec, act), now))
  /\ tracker' = activityEffect(tracker)
  /\ op' = [name |-> "topic", topic |-> topic, had |-> None, val |-> None]
  /\ UNCHANGED <<now, selectedSessionId, currentSession, queries, sendVars, uiVars>>

\* the page is reloaded: the hook is mounted afresh, what was in flight is
\* gone, localStorage stays and the mount effect sweeps it
Reload ==
  /\ \E k \in Keys : queries[k].pc # "idle"
  /\ selectedSessionId' = NoId
  /\ currentSession' = None
  /\ queries' = [k \in Keys |-> IdleQuery]
  /\ SetStore(cleanupExpiredSessions(Store(rec, act), now))
  /\ op' = [name |-> "reload", topic |-> subjectId, had |-> None, val |-> None]
  /\ tracker' = [tracker EXCEPT !.lastExecTime = EpochTick, !.timers = {}]
  /\ UNCHANGED <<now, subjectId, propChanges, sendVars, uiVars>>

\* time passes between the steps of a negotiation
TickNeg ==
  /\ \E t \in SampleTimes : t > now /\ now' = t
  /\ UNCHANGED <<rec, act, op, hookVars, propChanges, tracker, sendVars, uiVars>>

NextNeg ==
  \/ TickNeg
  \/ NegotiationStarts
  \/ \E k \in Keys : NegotiationRetries(k)
  \/ \E k \in Keys : RetryCancelled(k)
  \/ \E k \in Keys : \E v \in ValidationResponses(queries[k].asked) :
       SelectedValidationReturns(k, v)
  \/ \E k \in Keys, e \in TransportErrors : SelectedValidationFails(k, e)
  \/ \E k \in Keys : \E v \in ValidationResponses(queries[k].asked) :
       ValidationReturns(k, v)
  \/ \E k \in Keys : ValidationFails(k)
  \/ \E k \in Keys, newSession \in ServerSessions : CreateReturns(k, newSession)
  \/ \E k \in Keys, e \in TransportErrors : CreateFails(k, e)
  \/ \E id \in SessionIds : SelectSession(id)
  \/ Reload

SpecNeg == Init /\ [][NextNeg]_vars

(***************************************************************************)
(* MessageInput (MessageInput.tsx:102-141) as ChatPage mounts it           *)
(* (ChatWidget.tsx:443-447): onSendMessage is handleSendMessage, which     *)
(* awaits sendMessage and catches what it throws; isLoading is isSending,  *)
(* disabled is the isLoading of the hook.                                  *)
(***************************************************************************)
\* MessageInput.tsx:109  const maxLength = 1000
maxLength == 1000

\* sendMessageMutation.isPending: the mutation started last is in flight
isSending == sends # <<>> /\ Pending(Len(sends))

\* isLoading of the session query: it is fetching and has no data yet
isSessionLoading ==
  /\ queries[ObservedKey].pc \in
       {"selValidating", "validating", "creating", "retryWait"}
  /\ queries[ObservedKey].data = None

\* handleChange: the textarea (disabled={disabled || isLoading}) is edited
HandleChange(value) ==
  /\ ~(isSessionLoading \/ isSending)
  /\ message' = IF Len(value) <= maxLength THEN value ELSE message
  /\ UNCHANGED <<storeVars, op, hookVars, propChanges, tracker, sendVars,
                 widgetState, hasNewMessages>>

\* handleSubmit: onSendMessage(trimmedMessage) starts the send, and
\* setMessage('') runs without waiting for its outcome
HandleSubmit ==
  LET trimmedMessage == trim(message)
  IN  IF trimmedMessage # <<>> /\ ~isSending /\ ~isSessionLoading
        THEN /\ \E elapsed \in {0, 1} :
                  /\ now + elapsed <= MaxTime
                  /\ SendMessage(trimmedMessage, now + elapsed)
             /\ message' = <<>>
             /\ UNCHANGED <<widgetState, hasNewMessages>>
        ELSE /\ op' = [name |-> "notSubmitted", topic |-> subjectId,
                       had |-> None, val |-> Some(message)]
             /\ UNCHANGED <<storeVars, hookVars, propChanges, tracker,
                            sendVars, uiVars>>

\* the user types one of the texts of SpecSend
NextInput ==
  \/ \E value \in SendTexts : HandleChange(value)
  \/ HandleSubmit
  \/ \E i \in 1..MaxSends, sid \in SessionIds : ServerHandlesSend(i, sid)
  \/ \E i \in 1..MaxSends : SendSucceeds(i)
  \/ \E i \in 1..MaxSends : SendFails(i)
  \/ \E sid \in SessionIds :
       currentSession = None /\ SessionAdopted(ActiveSession(sid))

SpecInput == Init /\ [][NextInput]_vars

\* C21: after a send fails, the text the user submitted is still in the
\* message input: the input is cleared only for a send that succeeded.
Cex_C21 ==
  [][\A i \in 1..Len(sends) :
       SendFails(i) => trim(message') = sends[i].data.content]_vars

(***************************************************************************)
(* useChatWidget (useChat.ts:317-358): the state of the chat widget and    *)
(* the operations the hook returns.  op keeps, for the run of              *)
(* toggleFullscreen calls that ends in the last operation, the state       *)
(* before the last call (had) and before the call preceding it (val).      *)
(***************************************************************************)
WidgetStates == {"collapsed", "expanded", "fullscreen"}

isCollapsed == widgetState = "collapsed"
isExpanded == widgetState = "expanded"
isFullscreen == widgetState = "fullscreen"

WidgetDid(name) ==
  op' = [name |-> name, topic |-> NoId, had |-> Some(widgetState),
         val |-> IF name = "toggleFullscreen" /\ op.name = name
                   THEN op.had ELSE None]

OpenChat ==
  /\ widgetState' = "expanded"
  /\ hasNewMessages' = FALSE
  /\ WidgetDid("openChat")
  /\ UNCHANGED <<storeVars, hookVars, propChanges, tracker, sendVars, message>>

CloseChat ==
  /\ widgetState' = "collapsed"
  /\ WidgetDid("closeChat")
  /\ UNCHANGED <<storeVars, hookVars, propChanges, tracker, sendVars, message,
                 hasNewMessages>>

\* mutant: leaving fullscreen collapses the widget
ToggleFullscreen_collapses ==
  /\ widgetState' = IF widgetState = "fullscreen"
                      THEN "collapsed" ELSE "fullscreen"
  /\ WidgetDid("toggleFullscreen")
  /\ UNCHANGED <<storeVars, hookVars, propChanges, tracker, sendVars, message,
                 hasNewMessages>>

\* setWidgetState(prev => prev === 'fullscreen' ? 'expanded' : 'fullscreen')
ToggleFullscreen ==
  /\ widgetState' = IF widgetState = "fullscreen"
                      THEN "expanded" ELSE "fullscreen"
  /\ WidgetDid("toggleFullscreen")
  /\ UNCHANGED <<storeVars, hookVars, propChanges, tracker, sendVars, message,
                 hasNewMessages>>

MarkAsRead ==
  /\ hasNewMessages' = FALSE
  /\ WidgetDid("markAsRead")
  /\ UNCHANGED <<storeVars, hookVars, propChanges, tracker, sendVars, message,
                 widgetState>>

MarkAsUnread ==
  /\ hasNewMessages' = TRUE
  /\ WidgetDid("markAsUnread")
  /\ UNCHANGED <<storeVars, hookVars, propChanges, tracker, sendVars, message,
                 widgetState>>

\* the setWidgetState the hook hands out
SetWidgetState(state) ==
  /\ widgetState' = state
  /\ WidgetDid("setWidgetState")
  /\ UNCHANGED <<storeVars, hookVars, propChanges, tracker, sendVars, message,
                 hasNewMessages>>

\* the widget is mounted with any initialState
InitWidget ==
  /\ InitStore
  /\ InitHook
  /\ \E initialState \in WidgetStates : InitUi(initialState)

\* The operations of the hook in any order, and the chat of the panel
\* (ChatWidget.tsx:79-88, shown when the widget is not collapsed) with the
\* message input of ChatPage.
NextWidget ==
  \/ OpenChat
  \/ CloseChat
  \/ ToggleFullscreen
  \/ MarkAsRead
  \/ MarkAsUnread
  \/ \E state \in WidgetStates : SetWidgetState(state)
  \/ \E value \in SendTexts : ~isCollapsed /\ HandleChange(value)
  \/ ~isCollapsed /\ HandleSubmit
  \/ \E i \in 1..MaxSends, sid \in SessionIds : ServerHandlesSend(i, sid)
  \/ \E i \in 1..MaxSends : SendSucceeds(i)
  \/ \E i \in 1..MaxSends : SendFails(i)
  \/ \E sid \in SessionIds :
       currentSession = None /\ SessionAdopted(ActiveSession(sid))

SpecWidget == InitWidget /\ [][NextWidget]_vars

\* C22: toggleFullscreen yields fullscreen from expanded and expanded from
\* fullscreen, so two consecutive toggles that start from expanded end in
\* expanded; it leaves hasNewMessages unchanged; and at every moment exactly
\* one of isCollapsed, isExpanded, isFullscreen is true.
Thm_C22 ==
  /\ [][ToggleFullscreen =>
          /\ isExpanded => widgetState' = "fullscreen"
          /\ isFullscreen => widgetState' = "expanded"
          /\ hasNewMessages' = hasNewMessages]_vars
  /\ []((op.name = "toggleFullscreen" /\ op.val = Some("expanded"))
        => isExpanded)
  /\ [](Cardinality({b \in {<<1, isCollapsed>>, <<2, isExpanded>>,
                            <<3, isFullscreen>>} : b[2]}) = 1)

\* toggleFullscreen has been called twice in a row starting from expanded,
\* with unread messages flagged, and the widget is expanded again
Wit_C22 ==
  /\ op.name = "toggleFullscreen"
  /\ op.val = Some("expanded")
  /\ op.had = Some("fullscreen")
  /\ widgetState = "expanded"
  /\ hasNewMessages

(***************************************************************************)
(* The session history: the sidebar of ChatPage and the history panel      *)
(* fetch it, a session of it is selected and negotiated.                   *)
(***************************************************************************)
\* the options the two callers of chatApi.getSessionHistory pass
\* (ChatWidget.tsx:289-292, MessageInput.tsx:304-307)
ChatPageHistoryOptions == [limit |-> Some(50), includeInactive |-> Some(TRUE)]
ChatHistoryOptions == [limit |-> Some(30), includeInactive |-> Some(TRUE)]

\* chatApi.getSessionHistory: the query parameters of the request; a limit
\* that is absent or 0 is not sent
getSessionHistory(subj, options) ==
  [subjectId |-> subj,
   limit |-> IF options.limit # None /\ Val(options.limit) # 0
               THEN options.limit ELSE None,
   include_inactive |-> options.includeInactive]

\* a history query runs its queryFn
HistoryFetched(options) ==
  /\ op' = [name |-> "history", topic |-> subjectId, had |-> None,
            val |-> Some(getSessionHistory(subjectId, options))]
  /\ UNCHANGED <<storeVars, hookVars, propChanges, tracker, sendVars, uiVars>>

NextHistory ==
  \/ HistoryFetched(ChatPageHistoryOptions)
  \/ HistoryFetched(ChatHistoryOptions)
  \/ \E id \in SessionIds : SelectSession(id)
  \/ NegotiationStarts
  \/ \E k \in Keys : NegotiationRetries(k)
  \/ \E k \in Keys : RetryCancelled(k)
  \/ \E k \in Keys : \E v \in ValidationResponses(queries[k].asked) :
       SelectedValidationReturns(k, v)
  \/ \E k \in Keys, e \in TransportErrors : SelectedValidationFails(k, e)
  \/ \E k \in Keys, newSession \in ServerSessions : CreateReturns(k, newSession)
  \/ \E k \in Keys, e \in TransportErrors : CreateFails(k, e)

SpecHistory == Init /\ [][NextHistory]_vars

\* C18: no request for the session history asks for more than 30 sessions.
Cex_C18 ==
  (op.name = "history" /\ Val(op.val).limit # None)
  => Val(Val(op.val).limit) <= 30

\* the default negotiation of a hook whose subjectId changes
NextTopic ==
  \/ TickNeg
  \/ NegotiationStarts
  \/ \E k \in Keys : NegotiationRetries(k)
  \/ \E k \in Keys : RetryCancelled(k)
  \/ \E k \in Keys : \E v \in ValidationResponses(queries[k].asked) :
       ValidationReturns(k, v)
  \/ \E k \in Keys : ValidationFails(k)
  \/ \E k \in Keys, newSession \in ServerSessions : CreateReturns(k, newSession)
  \/ \E k \in Keys, e \in TransportErrors : CreateFails(k, e)
  \/ \E topic \in Topics : ChangeTopic(topic)

SpecTopic == Init /\ [][NextTopic]_vars

(***************************************************************************)
(* The store and the default negotiation over a localStorage that holds    *)
(* what the class did not write.  The clock stands still: expiry is the    *)
(* matter of SpecStore and SpecNeg.                                        *)
(***************************************************************************)
InitCorrupt ==
  /\ now = 0
  /\ rec \in [Topics -> {None, Garbled, Unreadable}]
  /\ act = EmptyData \/ act = GarbledData \/ act = UnreadableData
  /\ op = NoOp
  /\ InitHook
  /\ InitUi("collapsed")

NextCorrupt ==
  \/ \E subj \in Topics, session \in ServerSessions : StoreSession(subj, session)
  \/ \E subj \in Topics : GetStoredSession(subj)
  \/ \E subj \in Topics : UpdateActivity(subj)
  \/ \E subj \in Topics : ClearSession(subj)
  \/ \E subj \in Topics : MarkSessionInvalid(subj)
  \/ CleanupExpiredSessions
  \/ NegotiationStarts
  \/ \E k \in Keys : NegotiationRetries(k)
  \/ \E k \in Keys : \E v \in ValidationResponses(queries[k].asked) :
       ValidationReturns(k, v)
  \/ \E k \in Keys : ValidationFails(k)
  \/ \E k \in Keys, newSession \in ServerSessions : CreateReturns(k, newSession)
  \/ \E k \in Keys, e \in TransportErrors : CreateFails(k, e)

SpecCorrupt == InitCorrupt /\ [][NextCorrupt]_vars

\* the record of topic cannot be read or parsed
Damaged(topic) == rec[topic] = Garbled \/ rec[topic] = Unreadable

TickTrack ==
  /\ FineNow < MaxTicks
  /\ IF tracker.half + 1 < TicksPerMinute
       THEN tracker' = [tracker EXCEPT !.half = @ + 1] /\ UNCHANGED now
       ELSE tracker' = [tracker EXCEPT !.half = 0] /\ now' = now + 1
  /\ UNCHANGED <<rec, act, op, hookVars, propChanges, sendVars, uiVars>>

\* mousedown, mousemove, keypress, scroll or touchstart on the document
ActivityEvent ==
  /\ currentSession # None
  /\ LET th == throttled(tracker, FineNow, subjectId)
     IN  IF th.exec
           THEN \* trackActivity
                /\ SetStore(updateActivity(Store(rec, act), subjectId, now))
                /\ tracker' = [th.tr EXCEPT !.lastTouch[subjectId] = FineNow]
                /\ op' = [name |-> "tracked", topic |-> subjectId,
                          had |-> None, val |-> None]
           ELSE /\ tracker' = th.tr
                /\ op' = [name |-> "deferred", topic |-> subjectId,
                          had |-> None, val |-> None]
                /\ UNCHANGED <<rec, act>>
  /\ UNCHANGED <<now, hookVars, propChanges, sendVars, uiVars>>

\* a timeout of throttle fires, at its due time or later
TimerFires(tm) ==
  /\ tm \in tracker.timers
  /\ tm.due <= FineNow
  /\ SetStore(updateActivity(Store(rec, act), tm.topic, now))
  /\ tracker' = [tracker EXCEPT
       !.timers = @ \ {tm},
       !.lastExecTime = IF tm.live THEN FineNow ELSE @,
       !.lastTouch[tm.topic] = FineNow]
  /\ op' = [name |-> "timerTracked", topic |-> tm.topic,
            had |-> None, val |-> None]
  /\ UNCHANGED <<now, hookVars, propChanges, sendVars, uiVars>>

NextTrack ==
  \/ TickTrack
  \/ ActivityEvent
  \/ \E tm \in tracker.timers : TimerFires(tm)
  \/ \E sid \in SessionIds : SessionAdopted(ActiveSession(sid))
  \/ \E topic \in Topics : ChangeTopic(topic)

SpecTrack == Init /\ [][NextTrack]_vars

\* Sends next to the events of the activity tracker.  The sends are those
\* of MessageInput, which is disabled while a send is pending
\* (ChatWidget.tsx: isLoading={isSending}), and the session query adopts
\* its session once; afterwards the session changes with the responses.
NextTouch ==
  \/ \E text \in SendTexts : PendingSends = {} /\ SendStarts(text)
  \/ \E i \in 1..MaxSends, sid \in SessionIds : ServerHandlesSend(i, sid)
  \/ \E i \in 1..MaxSends : SendSucceeds(i)
  \/ \E i \in 1..MaxSends : SendFails(i)
  \/ \E sid \in SessionIds :
       currentSession = None /\ SessionAdopted(ActiveSession(sid))
  \/ ActivityEvent

SpecTouch == Init /\ [][NextTouch]_vars

TrackerTouches(topic) ==
  \/ /\ subjectId = topic
     /\ FineNow - tracker.lastExecTime > Delay
     /\ ActivityEvent
  \/ \E tm \in tracker.timers : tm.topic = topic /\ TimerFires(tm)

\* C14: two touches of the Local Activity Store that the Activity Tracker
\* makes for a topic are never less than the throttle delay (30 seconds)
\* apart, also when a timeout fires late or the adopted session changes.
Cex_C14 ==
  [][\A topic \in Topics :
       TrackerTouches(topic) => FineNow - tracker.lastTouch[topic] >= Delay]_vars

\* C16: after the topic has changed, no timeout scheduled before the change
\* touches the Local Activity Store for the old topic.
Cex_C16 ==
  [][\A tm \in tracker.timers :
       (TimerFires(tm) /\ tm.topic # subjectId) => UNCHANGED <<rec, act>>]_vars

(***************************************************************************)
(* Claims about sendMessage and the message cache.                         *)
(***************************************************************************)
IsTempId(id) == id[1] >= 1000000
\* the provisional entry of send i is in msgs
HasProvisional(msgs, i) ==
  \E n \in 1..Len(msgs) :
    /\ msgs[n].id = sends[i].tempId
    /\ msgs[n].content = sends[i].data.content
    /\ msgs[n].role = "user"
AllWhitespace(text) == \A n \in 1..Len(text) : text[n] = " "
\* text without its leading and trailing whitespace, for a text that has a
\* character other than whitespace
Stripped(text) ==
  LET solid == {n \in 1..Len(text) : text[n] # " "}
      first == CHOOSE n \in solid : \A m \in solid : n <= m
      last == CHOOSE n \in solid : \A m \in solid : m <= n
  IN  SubSeq(text, first, last)

\* C1: when the request of a send fails, the cache of the (topic, session)
\* the send was made for is restored to the sequence it held right before the
\* send appended its provisional entry, and sendMessage throws to its caller.
Cex_C1 ==
  [][\A i \in 1..Len(sends) :
       SendFails(i) =>
         /\ cache'[sends[i].key0] = sends[i].context
         /\ sends'[i].status = "failed"]_vars

\* C2: the successful reconciliation of one send does not remove the
\* provisional entry of another send that is still pending for the same
\* (topic, session).
Cex_C2 ==
  [][\A i, j \in 1..Len(sends) :
       (/\ SendSucceeds(i)
        /\ j # i
        /\ Pending(j)
        /\ sends[j].key0 = sends[i].key0
        /\ HasProvisional(cache[sends[j].key0], j))
       => HasProvisional(cache'[sends[j].key0], j)]_vars

\* C3: once every send has settled, no cache holds an entry whose id is in
\* the temporary range (id >= 1000000000000).
Cex_C3 ==
  PendingSends = {} =>
    \A k \in Keys : \A n \in 1..Len(cache[k]) : ~IsTempId(cache[k][n].id)

\* C4: when a send that was never in flight together with another send
\* succeeds, the cache of its (topic, session) is the sequence from before the
\* send followed by the confirmed user message and the assistant's reply.
Cex_C4 ==
  [][\A i \in 1..Len(sends) :
       (SendSucceeds(i) /\ sends[i].alone) =>
         cache'[sends[i].key0] =
           sends[i].context \o <<Val(sends[i].resp).user_message,
                                 Val(sends[i].resp).assistant_message>>]_vars

\* C5: a send whose text is empty after trimming is refused at once: no
\* request is issued, no cache changes, no provisional entry is appended, no
\* mutation starts and the activity record is not touched.
Thm_C5 ==
  [][\A text \in Texts, t \in {now, now + 1} :
       (SendMessage(text, t) /\ AllWhitespace(text)) =>
         /\ op'.name = "sendIgnored"
         /\ UNCHANGED <<cache, requests, sends, rec, act>>]_vars

\* a whitespace-only text has just been refused while a send is in flight
Wit_C5 ==
  /\ op.name = "sendIgnored"
  /\ Val(op.val) # <<>>
  /\ PendingSends # {}
  /\ Len(requests) = Len(sends)

\* C6: for every accepted send of text T, the issued request and the
\* provisional entry appended to the cache both carry exactly T without its
\* leading and trailing whitespace, and the provisional entry has role user.
Thm_C6 ==
  [][\A text \in Texts, t \in {now, now + 1} :
       (SendMessage(text, t) /\ ~AllWhitespace(text)) =>
         /\ Len(requests') = Len(requests) + 1
         /\ requests'[Len(requests')].message = Stripped(text)
         /\ Len(cache'[RenderKey]) = Len(cache[RenderKey]) + 1
         /\ cache'[RenderKey][Len(cache'[RenderKey])].content = Stripped(text)
         /\ cache'[RenderKey][Len(cache'[RenderKey])].role = "user"
         /\ SubSeq(cache'[RenderKey], 1, Len(cache[RenderKey])) = cache[RenderKey]]_vars

\* a text with whitespace on both sides has just been sent
Wit_C6 ==
  /\ op.name = "sendIssued"
  /\ Val(op.val) = <<" ", "a", " ">>
  /\ requests[Len(requests)].message = <<"a">>
  /\ \E k \in Keys : cache[k] # <<>> /\ cache[k][Len(cache[k])].content = <<"a">>

\* C19: every accepted send has issued exactly one request (k accepted
\* sends, k requests, each with the text of its send), and the failure of a
\* send issues no further request.
Thm_C19 ==
  /\ [](Len(requests) = Len(sends))
  /\ [][\A i \in 1..Len(sends) :
          /\ SendFails(i) => requests' = requests
          /\ Pending(i) => requests[i].message = sends[i].data.content]_vars

\* two sends were issued back to back, one has failed, the other is still
\* in flight, and two requests have been issued
Wit_C19 ==
  /\ Len(sends) = 2
  /\ Len(requests) = 2
  /\ sends[1].status = "failed"
  /\ Pending(2)
  /\ sends[2].key0 = RenderKey

\* C20: the message of a send is delivered to the session that was current
\* when the send was made (the request carries that session's id).
Cex_C20 ==
  [][\A i \in 1..Len(sends) : \A sid \in SessionIds :
       (ServerHandlesSend(i, sid) /\ sends[i].data.session_id # NoId)
       => sid = sends[i].data.session_id]_vars

\* msgs ends with the confirmed user message and the reply of data
EndsWithPair(msgs, data) ==
  /\ Len(msgs) >= 2
  /\ msgs[Len(msgs) - 1] = data.user_message
  /\ msgs[Len(msgs)] = data.assistant_message

\* C26: when the response of a successful send carries a session whose id
\* differs from the current one, the adopted session becomes that session
\* and the cache keyed by (topic, new id) holds the confirmed user message
\* and the reply of the send.
Cex_C26 ==
  [][\A i \in 1..Len(sends) :
       (/\ SendSucceeds(i)
        /\ Val(sends[i].resp).session # None
        /\ Val(Val(sends[i].resp).session).id # SessionIdOf(currentSession))
       => LET data == Val(sends[i].resp)
          IN  /\ currentSession' = data.session
              /\ EndsWithPair(cache'[<<subjectId, Val(data.session).id>>],
                              data)]_vars

\* Sends, one at a time, against servers of both kinds: ids counted from 1
\* and ids taken from the clock.
NextIds ==
  \/ \E text \in SendTexts : PendingSends = {} /\ SendStarts(text)
  \/ \E i \in 1..MaxSends, sid \in SessionIds, hi \in {0, EpochHi} :
       ServerResponds(i, sid, hi)
  \/ \E i \in 1..MaxSends : SendSucceeds(i)
  \/ \E i \in 1..MaxSends : SendFails(i)
  \/ \E sid \in SessionIds :
       currentSession = None /\ SessionAdopted(ActiveSession(sid))

SpecIds == Init /\ [][NextIds]_vars

\* msg is a message the server has stored
IsConfirmed(msg) ==
  \E k \in Keys : \E n \in 1..Len(srvMsgs[k]) : srvMsgs[k][n] = msg

\* C27: the reconciliation of a successful send leaves every
\* server-confirmed entry that is in the cache in place and in the same
\* order, whatever its id: the confirmed entries from before are the
\* beginning of the confirmed entries afterwards.
Cex_C27 ==
  [][\A i \in 1..Len(sends) :
       SendSucceeds(i) =>
         LET before == SelectSeq(cache[sends[i].key], IsConfirmed)
             after == SelectSeq(cache'[sends[i].key], IsConfirmed)
         IN  /\ Len(after) >= Len(before)
             /\ SubSeq(after, 1, Len(before)) = before]_vars

\* Sends, one at a time, while the messages query refetches.
NextFetch ==
  \/ \E text \in SendTexts : PendingSends = {} /\ SendStarts(text)
  \/ \E i \in 1..MaxSends, sid \in SessionIds : ServerHandlesSend(i, sid)
  \/ \E i \in 1..MaxSends : SendSucceeds(i)
  \/ \E i \in 1..MaxSends : SendFails(i)
  \/ \E sid \in SessionIds :
       currentSession = None /\ SessionAdopted(ActiveSession(sid))
  \/ FetchMessages

SpecFetch == Init /\ [][NextFetch]_vars

\* every entry of a is in b, in the same order
RECURSIVE IsSubsequence(_, _)
IsSubsequence(a, b) ==
  IF a = <<>> THEN TRUE
  ELSE IF b = <<>> THEN FALSE
  ELSE IF Head(a) = Head(b) THEN IsSubsequence(Tail(a), Tail(b))
  ELSE IsSubsequence(a, Tail(b))

\* C28: while a send is pending, a step that is not its own reconciliation
\* or rollback (a message fetch or refetch that completes, for one) removes
\* or reorders no entry of the cache of its (topic, session); its
\* provisional entry stays.
Cex_C28 ==
  [][\A i \in 1..Len(sends) :
       (Pending(i) /\ ~SendSucceeds(i) /\ ~SendFails(i)) =>
         IsSubsequence(cache[sends[i].key0], cache'[sends[i].key0])]_vars

(***************************************************************************)
(* Claims about the negotiation (checked under SpecNeg).                   *)
(***************************************************************************)
\* an attempt of the query function of k starts in this step
AttemptStarts(k) ==
  \/ k = ObservedKey /\ NegotiationStarts
  \/ NegotiationRetries(k)
\* the topic of k has no record, or one older than the threshold
NoLiveRecord(k) ==
  \/ rec[k[1]] = None
  \/ now - Val(rec[k[1]]).lastActivity > 5
\* the attempt that starts calls getOrCreateSession and not validateSession
CallsCreateOnly(k) ==
  /\ queries'[k].pc = "creating"
  /\ queries'[k].nCreate >= 1
  /\ queries'[k].nValidate =
       IF queries[k].pc = "retryWait" THEN queries[k].nValidate ELSE 0

\* C7 as stated: for every topic, if no Local Activity Record exists or the
\* time since its last touch exceeds the threshold, the negotiation calls
\* getOrCreateSession and does not call validateSession.
Cex_C7 ==
  [][\A k \in Keys :
       (AttemptStarts(k) /\ NoLiveRecord(k)) => CallsCreateOnly(k)]_vars

\* C7 (amended): in default mode (no history-selected session id), if no
\* Local Activity Record exists for the topic or the time since its last
\* touch exceeds the threshold, the negotiation calls getOrCreateSession and
\* does not call validateSession.
Thm_C7 ==
  [][\A k \in Keys :
       (AttemptStarts(k) /\ k[2] = NoId /\ NoLiveRecord(k))
       => CallsCreateOnly(k)]_vars

\* a default negotiation has found a record older than five minutes, dropped
\* it and asked for a new session
Wit_C7 ==
  /\ op.name = "negotiate"
  /\ selectedSessionId = NoId
  /\ op.had # None
  /\ now - Val(op.had).lastActivity > 5
  /\ Val(op.had).isValid
  /\ rec[subjectId] = None
  /\ queries[ObservedKey].pc = "creating"
  /\ queries[ObservedKey].nValidate = 0

\* C8: in default mode, when validateSession answers valid=true with a
\* session for the stored record, the negotiation adopts that session (the
\* one the record named), writes the record anew for it and ends without a
\* getOrCreateSession call.
Thm_C8 ==
  [][\A k \in Keys : \A v \in ValidationResponses(queries[k].asked) :
       (ValidationReturns(k, v) /\ v.valid /\ v.session # None) =>
         /\ currentSession' = v.session
         /\ Val(currentSession').id = queries[k].asked
         /\ rec'[k[1]] # None
         /\ Val(rec'[k[1]]).sessionId = queries[k].asked
         /\ Val(rec'[k[1]]).lastActivity = now
         /\ act'[k[1]] # None
         /\ Val(act'[k[1]]).sessionId = queries[k].asked
         /\ Val(act'[k[1]]).lastActivity = now
         /\ queries'[k].pc = "success"
         /\ queries'[k].data = v.session
         /\ queries'[k].nCreate = queries[k].nCreate]_vars

\* a record touched earlier, within the threshold, has been validated, its
\* session resumed and the record touched anew, without a getOrCreateSession
\* call
Wit_C8 ==
  /\ op.name = "validated"
  /\ op.had # None
  /\ Val(op.had).lastActivity < now
  /\ Val(op.had).sessionId = Val(currentSession).id
  /\ selectedSessionId = NoId
  /\ queries[ObservedKey].pc = "success"
  /\ queries[ObservedKey].nValidate = 1
  /\ queries[ObservedKey].nCreate = 0
  /\ currentSession # None
  /\ Val(currentSession).id = queries[ObservedKey].asked
  /\ rec[subjectId] # None
  /\ Val(rec[subjectId]).sessionId = Val(currentSession).id
  /\ Val(rec[subjectId]).lastActivity = now
  /\ now = 5

Running(k) == queries[k].pc \in {"selValidating", "validating", "creating"}

\* C11: acquisition is attempted at most three times, and an explicit
\* validation rejection (valid=false for a history-selected session) is
\* never retried: the negotiation does not wait for another attempt.
Cex_C11 ==
  /\ [](\A k \in Keys : queries[k].failureCount <= MaxRetries + 1)
  /\ [][\A k \in Keys : \A v \in ValidationResponses(queries[k].asked) :
          (SelectedValidationReturns(k, v) /\ ~v.valid)
          => queries'[k].pc # "retryWait"]_vars

\* C12: when the acquisition the hook observes has ended in failure, the
\* session exposed to the caller is none.
Cex_C12 ==
  queries[ObservedKey].pc = "error" => currentSession = None

\* C13: when a negotiation of a topic the hook has left resolves, its result
\* is not applied: the adopted session stays as it was.
Cex_C13 ==
  [][\A k \in Keys :
       (k[1] # subjectId /\ Running(k) /\ queries'[k].pc = "success")
       => currentSession' = currentSession]_vars

\* C23: in default mode, when validateSession answers valid=false, the
\* record of the topic is deleted (individual record and aggregate entry)
\* and the negotiation goes on to getOrCreateSession without another
\* validation; the session getOrCreateSession returns is stored for the
\* topic.
Thm_C23 ==
  /\ [][\A k \in Keys : \A v \in ValidationResponses(queries[k].asked) :
          (ValidationReturns(k, v) /\ ~v.valid) =>
            /\ rec'[k[1]] = None
            /\ act'[k[1]] = None
            /\ queries'[k].pc = "creating"
            /\ queries'[k].nCreate = queries[k].nCreate + 1
            /\ queries'[k].nValidate = queries[k].nValidate]_vars
  /\ [][\A k \in Keys : \A newSession \in ServerSessions :
          (CreateReturns(k, newSession) /\ k[2] = NoId) =>
            /\ rec'[k[1]] # None
            /\ Val(rec'[k[1]]).sessionId = newSession.id
            /\ Val(rec'[k[1]]).lastActivity = now
            /\ act'[k[1]] # None
            /\ Val(act'[k[1]]).sessionId = newSession.id
            /\ queries'[k].data = Some(newSession)]_vars

\* the validation of a stored record has just answered valid=false: the
\* record is gone and the negotiation waits for getOrCreateSession
Wit_C23 ==
  /\ op.name = "validated"
  /\ op.val = Some([valid |-> FALSE])
  /\ op.had # None
  /\ selectedSessionId = NoId
  /\ op.topic = subjectId
  /\ rec[subjectId] = None
  /\ act[subjectId] = None
  /\ queries[ObservedKey].pc = "creating"
  /\ queries[ObservedKey].nValidate = 1
  /\ queries[ObservedKey].nCreate = 1

\* C24: in default mode, when validateSession times out or fails in
\* transport, the record of the topic is kept and marked invalid, not
\* deleted, at that step, and the negotiation goes on to getOrCreateSession
\* without another validateSession call.
Cex_C24 ==
  [][\A k \in Keys :
       (ValidationFails(k) /\ rec[k[1]] # None) =>
         /\ rec'[k[1]] # None
         /\ Val(rec'[k[1]]).sessionId = Val(rec[k[1]]).sessionId
         /\ ~Val(rec'[k[1]]).isValid
         /\ queries'[k].pc = "creating"
         /\ queries'[k].nValidate = queries[k].nValidate]_vars

\* C25: whenever the acquisition of a session ends in failure (the
\* attempts are used up), the Local Activity Store holds no record for the
\* topic afterwards.
Cex_C25 ==
  [][\A k \in Keys :
       (Running(k) /\ queries'[k].pc = "error")
       => rec'[k[1]] = None /\ act'[k[1]] = None]_vars

(***************************************************************************)
(* Claims about the Local Activity Store (checked under SpecStore).        *)
(***************************************************************************)
\* C9: get(topic) on a record whose elapsed time since lastActivity exceeds
\* five minutes returns no record and deletes both the individual record and
\* the aggregate entry of the topic; a record at or under the threshold is
\* returned as stored and nothing of the topic changes.
Thm_C9 ==
  [][\A t \in Topics :
       GetStoredSession(t) =>
         IF rec[t] # None /\ now - Val(rec[t]).lastActivity > 5
           THEN op'.val = None /\ rec'[t] = None /\ act'[t] = None
           ELSE op'.val = rec[t] /\ rec'[t] = rec[t] /\ act'[t] = act[t]]_vars

\* a get has just found a record older than five minutes and removed it
Wit_C9 ==
  /\ op.name = "get"
  /\ op.had # None
  /\ now - Val(op.had).lastActivity > 5
  /\ op.val = None
  /\ rec[op.topic] = None
  /\ act[op.topic] = None

\* C29: the sweep deletes the record of every topic whose elapsed time
\* since lastActivity exceeds five minutes, the individual record and the
\* aggregate entry both, and leaves the record and the entry of every other
\* topic as they are.
Thm_C29 ==
  [][CleanupExpiredSessions =>
       \A t \in Topics :
         IF rec[t] # None /\ now - Val(rec[t]).lastActivity > 5
           THEN rec'[t] = None /\ act'[t] = None
           ELSE rec'[t] = rec[t] /\ act'[t] = act[t]]_vars

\* a sweep has just removed the record of one topic, older than five
\* minutes, and kept the younger record of another
Wit_C29 ==
  /\ op.name = "sweep"
  /\ now > TIMEOUT_MINUTES
  /\ \E t \in Val(op.val).swept : \E u \in Topics :
       /\ rec[t] = None
       /\ act[t] = None
       /\ rec[u] # None
       /\ act[u] # None
       /\ Val(rec[u]).lastActivity > 0
       /\ now - Val(rec[u]).lastActivity <= TIMEOUT_MINUTES

\* C30: store, touch, invalidate, clear and get (with its lazy expiry)
\* applied to one topic leave the individual record and the aggregate entry
\* of every other topic as they are.
Thm_C30 ==
  [][\A t \in Topics :
       (\/ \E session \in Sessions : StoreSession(t, session)
        \/ GetStoredSession(t)
        \/ UpdateActivity(t)
        \/ MarkSessionInvalid(t)
        \/ ClearSession(t))
       => \A u \in Topics \ {t} : rec'[u] = rec[u] /\ act'[u] = act[u]]_vars

\* a get has just removed the expired record of one topic while the other
\* topic holds a younger record, with its aggregate entry
Wit_C30 ==
  /\ op.name = "get"
  /\ op.had # None
  /\ op.val = None
  /\ rec[op.topic] = None
  /\ act[op.topic] = None
  /\ \E u \in Topics \ {op.topic} :
       /\ rec[u] # None
       /\ act[u] # None
       /\ Val(act[u]).sessionId = Val(rec[u]).sessionId
       /\ Val(rec[u]).lastActivity > Val(op.had).lastActivity

\* C33: a touch of a topic whose record exists and is not expired changes
\* only the lastActivity of the record (and of its aggregate entry): the
\* session identifier and the validity flag are as before, also when the
\* record is marked invalid.
Thm_C33 ==
  [][\A t \in Topics :
       (/\ UpdateActivity(t)
        /\ rec[t] # None
        /\ now - Val(rec[t]).lastActivity <= 5)
       => /\ rec'[t] = Some([Val(rec[t]) EXCEPT !.lastActivity = now])
          /\ act'[t] # None
          /\ Val(act'[t]).sessionId = Val(act[t]).sessionId
          /\ Val(act'[t]).isValid = Val(act[t]).isValid
          /\ Val(act'[t]).lastActivity = now]_vars

\* a record marked invalid has just been touched, later than it was
\* written: it is still invalid, names the same session, and carries the
\* time of the touch
Wit_C33 ==
  /\ op.name = "touch"
  /\ op.had # None
  /\ ~Val(op.had).isValid
  /\ Val(op.had).lastActivity < now
  /\ rec[op.topic] # None
  /\ ~Val(rec[op.topic]).isValid
  /\ Val(rec[op.topic]).sessionId = Val(op.had).sessionId
  /\ Val(rec[op.topic]).lastActivity = now

\* C39: a touch never creates a record: when the topic has no record, or a
\* record that is locally expired, the store holds no record and no
\* aggregate entry for the topic after the touch.
Thm_C39 ==
  [][\A t \in Topics :
       (/\ UpdateActivity(t)
        /\ (rec[t] = None \/ now - Val(rec[t]).lastActivity > 5))
       => rec'[t] = None /\ act'[t] = None]_vars

\* an expired record has just been touched, and is gone
Wit_C39 ==
  /\ op.name = "touch"
  /\ op.had # None
  /\ now - Val(op.had).lastActivity > 5
  /\ rec[op.topic] = None
  /\ act[op.topic] = None

\* C40: over a storage that does not fail, whatever operations have been
\* carried out, a topic has an individual record exactly when the aggregate
\* has an entry for it, and the two name the same session and carry the
\* same validity flag.
Thm_C40 ==
  \A t \in Topics :
    /\ (rec[t] = None) <=> (act[t] = None)
    /\ rec[t] # None =>
         /\ Val(rec[t]).sessionId = Val(act[t]).sessionId
         /\ Val(rec[t]).isValid = Val(act[t]).isValid

\* a record has just been marked invalid while the other topic holds a
\* valid record of an earlier time: records and entries agree
Wit_C40 ==
  /\ op.name = "invalidate"
  /\ op.had # None
  /\ Val(op.had).isValid
  /\ rec[op.topic] # None
  /\ ~Val(rec[op.topic]).isValid
  /\ ~Val(act[op.topic]).isValid
  /\ \E u \in Topics \ {op.topic} :
       /\ rec[u] # None
       /\ Val(rec[u]).isValid
       /\ Val(act[u]).isValid
       /\ Val(rec[u]).sessionId # Val(rec[op.topic]).sessionId

\* C36: when a send has been reconciled and a later send fails, the
\* rollback of the failed send removes no server-confirmed message from any
\* cache and brings back no provisional entry: every confirmed entry stays,
\* and every entry that is not confirmed was there before the rollback.
Cex_C36 ==
  [][\A i \in 1..Len(sends) :
       (SendFails(i) /\ \E a \in 1..(i - 1) : sends[a].status = "ok")
       => \A k \in Keys :
            /\ \A n \in 1..Len(cache[k]) :
                 IsConfirmed(cache[k][n])
                 => \E m \in 1..Len(cache'[k]) : cache'[k][m] = cache[k][n]
            /\ \A m \in 1..Len(cache'[k]) :
                 ~IsConfirmed(cache'[k][m])
                 => \E n \in 1..Len(cache[k]) : cache[k][n] = cache'[k][m]]_vars

\* C37: in every reachable state no server-confirmed message id appears
\* twice in the cache of a (topic, session), also when a refetch that holds
\* the confirmed messages of a send completes before its reconciliation.
Cex_C37 ==
  \A k \in Keys : \A m, n \in 1..Len(cache[k]) :
    (m # n /\ IsConfirmed(cache[k][m])) => cache[k][m].id # cache[k][n].id

\* Sends, one at a time, on a page whose history browser is used.
NextSelect ==
  \/ \E text \in SendTexts : PendingSends = {} /\ SendStarts(text)
  \/ \E i \in 1..MaxSends, sid \in SessionIds : ServerHandlesSend(i, sid)
  \/ \E i \in 1..MaxSends : SendSucceeds(i)
  \/ \E i \in 1..MaxSends : SendFails(i)
  \/ \E sid \in SessionIds :
       currentSession = None /\ SessionAdopted(ActiveSession(sid))
  \/ \E id \in SessionIds : SelectSession(id)

SpecSelect == Init /\ [][NextSelect]_vars

\* C31: selecting a session in the history browser sets the history
\* override and nothing else: no entry of the message cache of any (topic,
\* session) changes, and neither do the adopted session, the session
\* queries, the sends or the store.
Thm_C31 ==
  [][\A id \in SessionIds :
       SelectSession(id)
       => /\ selectedSessionId' = id
          /\ cache' = cache
          /\ UNCHANGED <<currentSession, queries, sends, rec, act>>]_vars

\* a session has just been selected while a send is pending: the
\* provisional entry of the send is in the cache it was written to
Wit_C31 ==
  /\ op.name = "select"
  /\ selectedSessionId # NoId
  /\ \E i \in 1..Len(sends) :
       /\ sends[i].status = "pending"
       /\ \E n \in 1..Len(cache[sends[i].key0]) :
            cache[sends[i].key0][n].id = sends[i].tempId

\* the default negotiation with validations that answer in time, fail, or
\* answer after the 10 second timeout
NextLate ==
  \/ TickNeg
  \/ NegotiationStarts
  \/ \E k \in Keys : NegotiationRetries(k)
  \/ \E k \in Keys : \E v \in ValidationResponses(queries[k].asked) :
       ValidationReturns(k, v)
  \/ \E k \in Keys : ValidationFails(k)
  \/ \E k \in Keys : ValidationTimesOut(k)
  \/ \E k \in Keys, id \in SessionIds : \E v \in ValidationResponses(id) :
       LateValidationReturns(k, id, v)
  \/ \E k \in Keys, newSession \in ServerSessions : CreateReturns(k, newSession)
  \/ \E k \in Keys, e \in TransportErrors : CreateFails(k, e)

SpecLate == Init /\ [][NextLate]_vars

\* C34: when the 10 second timeout fires, the negotiation goes on to
\* getOrCreateSession and the validateSession request stays in flight; when
\* its response arrives afterwards, it is not adopted: the adopted session,
\* the store and the course of the negotiation are as before.
Thm_C34 ==
  [][\A k \in Keys :
       /\ ValidationTimesOut(k)
          => /\ queries'[k].pc = "creating"
             /\ queries[k].asked \in queries'[k].late
             /\ currentSession' = currentSession
       /\ \A id \in SessionIds : \A v \in ValidationResponses(id) :
            LateValidationReturns(k, id, v)
            => /\ UNCHANGED <<currentSession, rec, act>>
               /\ queries'[k] = [queries[k] EXCEPT !.late = @ \ {id}]]_vars

\* a validation has just answered valid=true after its timeout, when the
\* negotiation had already acquired and adopted another session through
\* getOrCreateSession: that session is still the adopted and the stored one
Wit_C34 ==
  /\ op.name = "lateValidated"
  /\ Val(op.val).valid
  /\ queries[ObservedKey].pc = "success"
  /\ queries[ObservedKey].nCreate >= 1
  /\ currentSession # None
  /\ Val(currentSession).id # Val(op.val).id
  /\ rec[subjectId] # None
  /\ Val(rec[subjectId]).sessionId = Val(currentSession).id

(***************************************************************************)
(* ChatPage.handleStartNewChat (ChatWidget.tsx:309-336).  The handler runs  *)
(* up to its first await inside the click event: clearSession,              *)
(* setSelectedSessionId(undefined), which React applies when the handler    *)
(* yields, and invalidateQueries({ queryKey: ['chat', 'session',            *)
(* subjectId] }).  The filter matches by prefix, so it marks the default    *)
(* query and every ['chat', 'session', subjectId, id] query, and refetches  *)
(* those that are active: the query the hook still observes, with the       *)
(* query function of the last render.  Then the page renders with no        *)
(* selection, the hook observes the default query, which is invalidated,    *)
(* and fetches it; removeQueries drops the messages of session?.id.  The    *)
(* refetch of the history is a HistoryFetched step.                         *)
(***************************************************************************)
\* fetchStatus 'fetching': the query function runs or waits for its retry
InFlight(k) ==
  queries[k].pc \in {"selValidating", "validating", "creating", "retryWait"}

StartNewChat ==
  LET ko == ObservedKey
      k0 == <<subjectId, NoId>>
      fresh(q) == [IdleQuery EXCEPT !.data = q.data, !.late = q.late]
      \* the default query function on the cleared store: getStoredSession
      \* returns null, chatApi.getOrCreateSession(subjectId)
      startDefault(q) == [fresh(q) EXCEPT !.pc = "creating", !.nCreate = 1]
      \* chatApi.validateSession(subjectId, selectedSessionId)
      startSelected(q, id) ==
        [fresh(q) EXCEPT !.pc = "selValidating", !.asked = id, !.nValidate = 1]
  IN  \* the page is mounted: useQuery has fetched the query it observes
      /\ queries[ko].pc # "idle"
      /\ SetStore(clearSession(Store(rec, act), subjectId))
      /\ selectedSessionId' = NoId
      /\ queries' = [k \in Keys |->
           IF k \notin {ko, k0} \/ InFlight(k) THEN queries[k]
           ELSE IF k = k0 THEN startDefault(queries[k])
           ELSE startSelected(queries[k], k[2])]
      /\ cache' = [cache EXCEPT ![RenderKey] = <<>>]
      /\ op' = [name |-> "startNew", topic |-> subjectId, had |-> rec[subjectId],
                val |-> None]
      /\ UNCHANGED <<now, subjectId, currentSession, propChanges, tracker, sends,
                     requests, srvMsgs, srvNextId, uiVars>>

NextNew ==
  \/ StartNewChat
  \/ \E id \in SessionIds : SelectSession(id)
  \/ NegotiationStarts
  \/ \E k \in Keys : NegotiationRetries(k)
  \/ \E k \in Keys : RetryCancelled(k)
  \/ \E k \in Keys : \E v \in ValidationResponses(queries[k].asked) :
       SelectedValidationReturns(k, v)
  \/ \E k \in Keys, e \in TransportErrors : SelectedValidationFails(k, e)
  \/ \E k \in Keys : \E v \in ValidationResponses(queries[k].asked) :
       ValidationReturns(k, v)
  \/ \E k \in Keys : ValidationFails(k)
  \/ \E k \in Keys, newSession \in ServerSessions : CreateReturns(k, newSession)
  \/ \E k \in Keys, e \in TransportErrors : CreateFails(k, e)

SpecNew == Init /\ [][NextNew]_vars

\* C35: the start-new-conversation action clears the record of the topic
\* and the history override, and every negotiation of the topic it sets off
\* calls getOrCreateSession without a validateSession call, be it for the
\* previous or for the previously selected session.
Cex_C35 ==
  [][StartNewChat
     => /\ rec'[subjectId] = None
        /\ act'[subjectId] = None
        /\ selectedSessionId' = NoId
        /\ \A k \in Keys :
             (k[1] = subjectId /\ queries'[k] # queries[k])
             => /\ queries'[k].pc = "creating"
                /\ queries'[k].nValidate = 0]_vars

(***************************************************************************)
(* The default negotiation against a server that answers with ChatSession  *)
(* objects as types/chat.ts declares them and as the server of             *)
(* test/mocks/chatApi.ts builds them: id, user, subject, is_active,        *)
(* created_at, updated_at, and no status field.  session.status is then    *)
(* undefined, written "none".                                              *)
(***************************************************************************)
TypedSessions == [id : SessionIds, status : {"none"}, is_active : {TRUE}]

NextTyped ==
  \/ TickNeg
  \/ NegotiationStarts
  \/ \E k \in Keys : NegotiationRetries(k)
  \/ \E k \in Keys, newSession \in TypedSessions : CreateReturns(k, newSession)
  \/ \E k \in Keys, e \in TransportErrors : CreateFails(k, e)
  \/ Reload

SpecTyped == Init /\ [][NextTyped]_vars

\* C32: right after the session a negotiation has newly acquired from
\* getOrCreateSession is stored, the record of the topic exists and its
\* validity flag is true.
Cex_C32 ==
  [][\A k \in Keys : \A newSession \in TypedSessions :
       (CreateReturns(k, newSession) /\ newSession.is_active)
       => /\ rec'[k[1]] # None
          /\ Val(rec'[k[1]]).isValid]_vars

\* C38: within one default negotiation, its retries counted, validateSession
\* is called at most once.
Thm_C38 ==
  \A k \in Keys : k[2] = NoId => queries[k].nValidate <= 1

\* a default negotiation has validated the stored session once, the
\* validation and the getOrCreateSession after it have failed, and its retry
\* is at getOrCreateSession again
Wit_C38 ==
  \E k \in Keys :
    /\ k[2] = NoId
    /\ queries[k].pc = "creating"
    /\ queries[k].failureCount >= 1
    /\ queries[k].nValidate = 1
    /\ queries[k].nCreate >= 2

====
